---- MODULE Spec2Model ----
(***************************************************************************)
(* Training orchestration of train_refine.py: double-buffered prefetch,    *)
(* alternating discriminator/generator steps, validation passes, logging   *)
(* and checkpoint retention.  Tensors are abstracted to the identity of    *)
(* the batch they were computed from; losses to integers around the        *)
(* discriminator threshold.                                                *)
(***************************************************************************)
EXTENDS Integers, Sequences, FiniteSets, TLC

VARIABLES
    prm,        \* parsed arguments (max_iter, log_freq, chkpt_freq, ...)
    pc,         \* position of the script
    niter,      \* iteration counter
    start,      \* iteration the run started from (rsave.iter at startup)
    stop,       \* ctrlc.stop
    files,      \* checkpoint files on disk, per kind: set of iterations
    ck,         \* the ckpter objects rsave/dsave/osave: [lst, iter]
    loaded,     \* what was restored at startup, per artifact
    mode,       \* normalization mode (ifdo flag) of V, C, R, D
    tcalls,     \* number of batches tbchr has handed out (absolute index)
    vcalls,     \* number of batches vbchr has handed out
    fd,         \* feed dict: the batch whose tensors a fetch would compute
    rinp_b0, rgt_b0,    \* "next" slot
    rinp_b1, rgt_b1,    \* "current" slot, read by RefineNet and the losses
    dloss_prev, tLossAcc, vlog, vLossAcc, vi,
    last,       \* outcome of the latest training sess.run
    log,        \* training log lines printed so far
    runs,       \* the sess.run calls of the latest action touching a buffer
    px          \* one pixel going through the input pipeline

vars == <<prm, pc, niter, start, stop, files, ck, loaded, mode, tcalls, vcalls,
          fd, rinp_b0, rgt_b0, rinp_b1, rgt_b1, dloss_prev, tLossAcc, vlog,
          vLossAcc, vi, last, log, runs, px>>

----------------------------------------------------------------------------
(* Bounds of the model *)
MaxIter == 6
MaxValIter == 2

(* Program constants *)
DLossInit == 1000000
Thresh == 10

Kinds == {"rmodel", "dmodel", "opt"}
Stages == {"V", "C", "R", "D"}
Modes == {"train", "test"}

\* Discriminator losses a step can return: at the threshold and above it.
DLossVals == {Thresh, Thresh + 1}

\* Parameter sets the arguments are drawn from.
MaxIters == {2, MaxIter}
\* <<log_freq, chkpt_freq, save_freq>>
Freqs == {<<1, 2, 2>>, <<3, 3, 2>>}
ValFreqs == {2, MaxIter + 1}
StartIters == {0, 3}

Params ==
    {[max_iter |-> m, log_freq |-> f[1], chkpt_freq |-> f[2], save_freq |-> f[3],
      val_freq |-> v, val_iter |-> MaxValIter, disc_loss_thresh |-> Thresh] :
        m \in MaxIters, f \in Freqs, v \in ValFreqs}

Max(S) == CHOOSE x \in S : \A y \in S : y <= x

\* Identity of a tensor: which batch it was computed from.
Zero == [src |-> "zero", n |-> 0]
Trn(k) == [src |-> "trn", n |-> k]
Val(k) == [src |-> "val", n |-> k]

----------------------------------------------------------------------------
(* ut.ckpter *)

ckpter_load(S) == [lst |-> S, iter |-> IF S = {} THEN 0 ELSE Max(S)]

\* Variant: the newest checkpoints are not exempted from deletion.
ckpter_clean_NoLast(S, every, lastn) ==
    S \ {j \in S : every = 0 \/ j % every # 0}

\* Files left on disk by clean(every, last) when the disk holds S.
ckpter_clean(S, every, lastn) ==
    LET old == {j \in S : Cardinality({k \in S : k > j}) >= lastn}
    IN  S \ {j \in old : every = 0 \/ j % every # 0}

\* Default of the `every` argument (osave.clean(last=1)).
CleanEveryDefault == 0

\* Placeholder of px while the training script runs.
NoPixel == [stage |-> "none"]

----------------------------------------------------------------------------
Init ==
    /\ prm \in Params
    /\ pc = "load"
    /\ start \in StartIters
    /\ niter = start
    /\ stop = FALSE
    /\ files = [k \in Kinds |-> IF start = 0 THEN {} ELSE {start}]
    /\ ck = [k \in Kinds |-> ckpter_load(files[k])]
    /\ loaded = [R |-> {}, D |-> {}, O |-> {}]
    /\ mode \in [Stages -> Modes]
    /\ tcalls = start
    /\ vcalls = start
    /\ fd = Zero
    /\ rinp_b0 = Zero /\ rgt_b0 = Zero
    /\ rinp_b1 = Zero /\ rgt_b1 = Zero
    /\ dloss_prev = 0
    /\ tLossAcc = <<>>
    /\ vlog = <<>>
    /\ vLossAcc = <<>>
    /\ vi = 0
    /\ last = [kind |-> "none", ok |-> FALSE, dl |-> 0]
    /\ log = <<>>
    /\ runs = {}
    /\ px = NoPixel

----------------------------------------------------------------------------
(* Start-up *)

\* Restore VGG/VisibNet/CoarseNet, freeze V and C, restore RefineNet and the
\* optimizers from the latest checkpoints when there are any.
LoadWeights ==
    /\ pc = "load"
    /\ mode' = [mode EXCEPT !["V"] = "test", !["C"] = "test"]
    /\ loaded' = [R |-> IF ck["rmodel"].lst # {} THEN {ck["rmodel"].iter} ELSE {},
                  D |-> {},
                  O |-> IF ck["opt"].lst # {} THEN {ck["opt"].iter} ELSE {}]
    /\ pc' = "setup"
    /\ UNCHANGED <<px, runs, prm, niter, start, stop, files, ck, tcalls, vcalls, fd,
                   rinp_b0, rgt_b0, rinp_b1, rgt_b1, dloss_prev, tLossAcc,
                   vlog, vLossAcc, vi, last, log>>

\* sess.run(R.set_ifdo); sess.run(D.set_ifdo); dloss_prev=1e6; tLossAcc=[]; vlog=''
StartLoop ==
    /\ pc = "setup"
    /\ mode' = [mode EXCEPT !["R"] = "train", !["D"] = "train"]
    /\ dloss_prev' = DLossInit
    /\ tLossAcc' = <<>>
    /\ vlog' = <<>>
    /\ pc' = "prefetch"
    /\ UNCHANGED <<px, runs, prm, niter, start, stop, files, ck, loaded, tcalls, vcalls, fd,
                   rinp_b0, rgt_b0, rinp_b1, rgt_b1, vLossAcc, vi, last, log>>

\* The buffer variables a sess.run call assigns (w) and reads (r).
NextSlot == {"rinp_b0", "rgt_b0"}
CurSlot == {"rinp_b1", "rgt_b1"}

\* tldr_fetchOp = [rinp_b0.assign(rinp).op, rgt_b0.assign(rgt).op]
tldr_fetchOp == [w |-> NextSlot, r |-> {}]
\* vldr_fetchOp = [rinp_b1.assign(rinp).op, rgt_b1.assign(rgt).op]
vldr_fetchOp == [w |-> CurSlot, r |-> {}]
\* tldr_swapOp = [rinp_b1.assign(rinp_b0).op, rgt_b1.assign(rgt_b0).op]
tldr_swapOp == [w |-> CurSlot, r |-> NextSlot]
\* rloss, dloss, dacc, dStep, rStep: RefineNet(rinp_b1), rgt_b1 in the losses
LossEval == [w |-> {}, r |-> CurSlot]
\* sess.run([rloss,dloss,dacc,dStep|rStep]+tldr_fetchOp)
StepAndFetch == [w |-> tldr_fetchOp.w, r |-> LossEval.r]

\* Variant: the validation losses are evaluated in the run of the fetch.
ValRuns_OneRun(fok) ==
    {[w |-> vldr_fetchOp.w, r |-> LossEval.r]}

\* The runs of one validation round: the fetch, then (when it did not
\* raise) the loss evaluation in a run of its own.
ValRuns(fok) ==
    IF fok THEN {vldr_fetchOp, LossEval} ELSE {vldr_fetchOp}

\* Which of the two assign ops of a fetch took effect.  A run that raised
\* was aborted somewhere: when the fetch is the whole run at least one of
\* the assigns did not happen; when it shares the run with a training step
\* the error may also come from the step, with both assigns done.
FetchAlone(ok) ==
    IF ok THEN {[rinp |-> TRUE, rgt |-> TRUE]}
    ELSE [rinp : BOOLEAN, rgt : BOOLEAN] \ {[rinp |-> TRUE, rgt |-> TRUE]}

FetchWithStep(ok) ==
    IF ok THEN {[rinp |-> TRUE, rgt |-> TRUE]}
    ELSE [rinp : BOOLEAN, rgt : BOOLEAN]

\* fd=getfeed(tbchr.get_batch()); sess.run(tldr_fetchOp,feed_dict=fd)
\* Not inside a try: a failing fetch ends the program.
Prefetch ==
    /\ pc = "prefetch"
    /\ fd' = Trn(tcalls)
    /\ tcalls' = tcalls + 1
    /\ \E ok \in BOOLEAN : \E w \in FetchAlone(ok) :
          /\ rinp_b0' = IF w.rinp THEN fd' ELSE rinp_b0
          /\ rgt_b0' = IF w.rgt THEN fd' ELSE rgt_b0
          /\ pc' = IF ok THEN "test" ELSE "crashed"
    /\ runs' = {tldr_fetchOp}
    /\ UNCHANGED <<px, prm, niter, start, stop, files, ck, loaded, mode, vcalls,
                   rinp_b1, rgt_b1, dloss_prev, tLossAcc, vlog, vLossAcc, vi,
                   last, log>>

----------------------------------------------------------------------------
(* Main loop *)

\* while not ctrlc.stop and niter < prm.max_iter:  /  if niter % prm.val_freq == 0
LoopTest ==
    /\ pc = "test"
    /\ pc' = IF ~stop /\ niter < prm.max_iter
             THEN (IF niter % prm.val_freq = 0 THEN "valbegin" ELSE "swap")
             ELSE "final"
    /\ UNCHANGED <<px, runs, prm, niter, start, stop, files, ck, loaded, mode, tcalls,
                   vcalls, fd, rinp_b0, rgt_b0, rinp_b1, rgt_b1, dloss_prev,
                   tLossAcc, vlog, vLossAcc, vi, last, log>>

\* sess.run([R.unset_ifdo,D.unset_ifdo]); vLossAcc=[]
ValBegin ==
    /\ pc = "valbegin"
    /\ mode' = [mode EXCEPT !["R"] = "test", !["D"] = "test"]
    /\ vLossAcc' = <<>>
    /\ vi' = 0
    /\ pc' = "valbatch"
    /\ UNCHANGED <<px, runs, prm, niter, start, stop, files, ck, loaded, tcalls, vcalls, fd,
                   rinp_b0, rgt_b0, rinp_b1, rgt_b1, dloss_prev, tLossAcc, vlog,
                   last, log>>

\* Variant: the validation fetch assigns the slot the training fetch uses.
ValBatch_IntoNext ==
    /\ pc = "valbatch"
    /\ vi < prm.val_iter
    /\ fd' = Val(vcalls)
    /\ vcalls' = vcalls + 1
    /\ vi' = vi + 1
    /\ \E fok \in BOOLEAN, eok \in BOOLEAN : \E w \in FetchAlone(fok) :
          /\ rinp_b0' = IF w.rinp THEN fd' ELSE rinp_b0
          /\ rgt_b0' = IF w.rgt THEN fd' ELSE rgt_b0
          /\ vLossAcc' = IF fok /\ eok THEN Append(vLossAcc, fd'.n) ELSE vLossAcc
          /\ runs' = ValRuns(fok)
    /\ UNCHANGED <<px, prm, pc, niter, start, stop, files, ck, loaded, mode, tcalls,
                   rinp_b1, rgt_b1, dloss_prev, tLossAcc, vlog, last, log>>

\* One round of the validation for-loop: the try body
\*   fps=vbchr.get_batch(); fd=getfeed(fps); sess.run(vldr_fetchOp,feed_dict=fd)
\*   vLossAcc.append(sess.run([rloss,dloss,dacc]))
\* vldr_fetchOp assigns rinp_b1 and rgt_b1.
ValBatch ==
    /\ pc = "valbatch"
    /\ vi < prm.val_iter
    /\ fd' = Val(vcalls)
    /\ vcalls' = vcalls + 1
    /\ vi' = vi + 1
    /\ \E fok \in BOOLEAN, eok \in BOOLEAN : \E w \in FetchAlone(fok) :
          /\ rinp_b1' = IF w.rinp THEN fd' ELSE rinp_b1
          /\ rgt_b1' = IF w.rgt THEN fd' ELSE rgt_b1
          /\ vLossAcc' = IF fok /\ eok THEN Append(vLossAcc, fd'.n) ELSE vLossAcc
          /\ runs' = ValRuns(fok)
    /\ UNCHANGED <<px, prm, pc, niter, start, stop, files, ck, loaded, mode, tcalls,
                   rinp_b0, rgt_b0, dloss_prev, tLossAcc, vlog, last, log>>

\* Variant: after the pass the loop goes on without the swap.
ValEnd_SkipSwap ==
    /\ pc = "valbatch"
    /\ vi >= prm.val_iter
    /\ mode' = [mode EXCEPT !["R"] = "train", !["D"] = "train"]
    /\ IF vLossAcc = <<>>
       THEN pc' = "crashed" /\ vlog' = vlog
       ELSE pc' = "getbatch" /\ vlog' = <<[at |-> niter, cnt |-> Len(vLossAcc)]>>
    /\ UNCHANGED <<px, runs, prm, niter, start, stop, files, ck, loaded, tcalls, vcalls, fd,
                   rinp_b0, rgt_b0, rinp_b1, rgt_b1, dloss_prev, tLossAcc,
                   vLossAcc, vi, last, log>>

\* Variant: the pass ends without switching R and D back to train mode.
ValEnd_NoRestore ==
    /\ pc = "valbatch"
    /\ vi >= prm.val_iter
    /\ IF vLossAcc = <<>>
       THEN pc' = "crashed" /\ vlog' = vlog
       ELSE pc' = "swap" /\ vlog' = <<[at |-> niter, cnt |-> Len(vLossAcc)]>>
    /\ UNCHANGED <<px, runs, prm, niter, start, stop, files, ck, loaded, mode, tcalls, vcalls,
                   fd, rinp_b0, rgt_b0, rinp_b1, rgt_b1, dloss_prev, tLossAcc,
                   vLossAcc, vi, last, log>>

\* sess.run([R.set_ifdo,D.set_ifdo]); args = list(np.mean(vLossAcc,axis=0)); vlog=...
\* With vLossAcc empty np.mean gives a scalar nan and list() of it raises
\* TypeError outside any try: the program ends.
ValEnd ==
    /\ pc = "valbatch"
    /\ vi >= prm.val_iter
    /\ mode' = [mode EXCEPT !["R"] = "train", !["D"] = "train"]
    /\ IF vLossAcc = <<>>
       THEN pc' = "crashed" /\ vlog' = vlog
       ELSE pc' = "swap" /\ vlog' = <<[at |-> niter, cnt |-> Len(vLossAcc)]>>
    /\ UNCHANGED <<px, runs, prm, niter, start, stop, files, ck, loaded, tcalls, vcalls, fd,
                   rinp_b0, rgt_b0, rinp_b1, rgt_b1, dloss_prev, tLossAcc,
                   vLossAcc, vi, last, log>>

\* Variant: the swap copies the refine input only.
Swap_InputOnly ==
    /\ pc = "swap"
    /\ rinp_b1' = rinp_b0
    /\ pc' = "getbatch"
    /\ runs' = {tldr_swapOp}
    /\ UNCHANGED <<px, prm, niter, start, stop, files, ck, loaded, mode, tcalls,
                   vcalls, fd, rinp_b0, rgt_b0, rgt_b1, dloss_prev, tLossAcc, vlog,
                   vLossAcc, vi, last, log>>

\* sess.run(tldr_swapOp): rinp_b1.assign(rinp_b0), rgt_b1.assign(rgt_b0)
Swap ==
    /\ pc = "swap"
    /\ rinp_b1' = rinp_b0
    /\ rgt_b1' = rgt_b0
    /\ pc' = "getbatch"
    /\ runs' = {tldr_swapOp}
    /\ UNCHANGED <<px, prm, niter, start, stop, files, ck, loaded, mode, tcalls,
                   vcalls, fd, rinp_b0, rgt_b0, dloss_prev, tLossAcc, vlog,
                   vLossAcc, vi, last, log>>

\* fps=tbchr.get_batch(); fd=getfeed(fps)
GetBatch ==
    /\ pc = "getbatch"
    /\ fd' = Trn(tcalls)
    /\ tcalls' = tcalls + 1
    /\ pc' = "step"
    /\ UNCHANGED <<px, runs, prm, niter, start, stop, files, ck, loaded, mode, vcalls,
                   rinp_b0, rgt_b0, rinp_b1, rgt_b1, dloss_prev, tLossAcc, vlog,
                   vLossAcc, vi, last, log>>

\* Variant: the parity of the iteration is not tested.
SelectStep_NoParity(n, dprev, thresh) ==
    IF dprev > thresh THEN "D" ELSE "R"

\* Variant: the threshold test is not strict.
SelectStep_NonStrict(n, dprev, thresh) ==
    IF n % 2 = 0 /\ dprev >= thresh THEN "D" ELSE "R"

\* if niter%2==0 and dloss_prev>prm.disc_loss_thresh: dStep  else: rStep
SelectStep(n, dprev, thresh) ==
    IF n % 2 = 0 /\ dprev > thresh THEN "D" ELSE "R"

\* Variant: the fetch of the combined run assigns the current slot.
TrainStep_FetchIntoCur ==
    /\ pc = "step"
    /\ \E ok \in BOOLEAN, dl \in DLossVals : \E w \in FetchWithStep(ok) :
          /\ rinp_b1' = IF w.rinp THEN fd ELSE rinp_b1
          /\ rgt_b1' = IF w.rgt THEN fd ELSE rgt_b1
          /\ last' = [kind |-> SelectStep(niter, dloss_prev, prm.disc_loss_thresh),
                      ok |-> ok, dl |-> IF ok THEN dl ELSE 0]
          /\ tLossAcc' = IF ok THEN Append(tLossAcc, [n |-> niter, dl |-> dl])
                         ELSE tLossAcc
          /\ dloss_prev' = IF ok THEN dl ELSE dloss_prev
    /\ pc' = "log"
    /\ runs' = {StepAndFetch}
    /\ UNCHANGED <<px, prm, niter, start, stop, files, ck, loaded, mode, tcalls,
                   vcalls, fd, rinp_b0, rgt_b0, vlog, vLossAcc, vi, log>>

\* Variant: dloss_prev is overwritten whether or not the run succeeded.
TrainStep_AlwaysRecord ==
    /\ pc = "step"
    /\ \E ok \in BOOLEAN, dl \in DLossVals : \E w \in FetchWithStep(ok) :
          /\ rinp_b0' = IF w.rinp THEN fd ELSE rinp_b0
          /\ rgt_b0' = IF w.rgt THEN fd ELSE rgt_b0
          /\ last' = [kind |-> SelectStep(niter, dloss_prev, prm.disc_loss_thresh),
                      ok |-> ok, dl |-> IF ok THEN dl ELSE 0]
          /\ tLossAcc' = IF ok THEN Append(tLossAcc, [n |-> niter, dl |-> dl])
                         ELSE tLossAcc
          /\ dloss_prev' = dl
    /\ pc' = "log"
    /\ runs' = {StepAndFetch}
    /\ UNCHANGED <<px, prm, niter, start, stop, files, ck, loaded, mode, tcalls,
                   vcalls, fd, rinp_b1, rgt_b1, vlog, vLossAcc, vi, log>>

\* The try block: one sess.run of the losses, the selected optimizer step
\* and tldr_fetchOp (assigning rinp_b0, rgt_b0); on success the loss triple
\* is appended and dloss_prev updated, on an exception nothing is recorded.
TrainStep ==
    /\ pc = "step"
    /\ \E ok \in BOOLEAN, dl \in DLossVals : \E w \in FetchWithStep(ok) :
          /\ rinp_b0' = IF w.rinp THEN fd ELSE rinp_b0
          /\ rgt_b0' = IF w.rgt THEN fd ELSE rgt_b0
          /\ last' = [kind |-> SelectStep(niter, dloss_prev, prm.disc_loss_thresh),
                      ok |-> ok, dl |-> IF ok THEN dl ELSE 0]
          /\ tLossAcc' = IF ok THEN Append(tLossAcc, [n |-> niter, dl |-> dl])
                         ELSE tLossAcc
          /\ dloss_prev' = IF ok THEN dl ELSE dloss_prev
    /\ pc' = "log"
    /\ runs' = {StepAndFetch}
    /\ UNCHANGED <<px, prm, niter, start, stop, files, ck, loaded, mode, tcalls,
                   vcalls, fd, rinp_b1, rgt_b1, vlog, vLossAcc, vi, log>>

\* Variant: the accumulator is not emptied after a line is printed.
LogStep_KeepAcc ==
    /\ pc = "log"
    /\ niter' = niter + 1
    /\ IF niter' % prm.log_freq = 0 /\ Len(tLossAcc) > 2
       THEN /\ log' = Append(log, [niter |-> niter',
                                 trn |-> [i \in 1..Len(tLossAcc) |-> tLossAcc[i].n],
                                 vlog |-> vlog])
            /\ tLossAcc' = tLossAcc
            /\ vlog' = <<>>
       ELSE UNCHANGED <<log, tLossAcc, vlog>>
    /\ pc' = "save"
    /\ UNCHANGED <<px, runs, prm, start, stop, files, ck, loaded, mode, tcalls, vcalls, fd,
                   rinp_b0, rgt_b0, rinp_b1, rgt_b1, dloss_prev, vLossAcc, vi,
                   last>>

\* Variant: vlog is not cleared after a line is printed.
LogStep_KeepVlog ==
    /\ pc = "log"
    /\ niter' = niter + 1
    /\ IF niter' % prm.log_freq = 0 /\ Len(tLossAcc) > 2
       THEN /\ log' = Append(log, [niter |-> niter',
                                 trn |-> [i \in 1..Len(tLossAcc) |-> tLossAcc[i].n],
                                 vlog |-> vlog])
            /\ tLossAcc' = <<>>
            /\ vlog' = vlog
       ELSE UNCHANGED <<log, tLossAcc, vlog>>
    /\ pc' = "save"
    /\ UNCHANGED <<px, runs, prm, start, stop, files, ck, loaded, mode, tcalls, vcalls, fd,
                   rinp_b0, rgt_b0, rinp_b1, rgt_b1, dloss_prev, vLossAcc, vi,
                   last>>

\* niter+=1; if niter % prm.log_freq == 0 and len(tLossAcc) > 2: print, reset
LogStep ==
    /\ pc = "log"
    /\ niter' = niter + 1
    /\ IF niter' % prm.log_freq = 0 /\ Len(tLossAcc) > 2
       THEN /\ log' = Append(log, [niter |-> niter',
                                 trn |-> [i \in 1..Len(tLossAcc) |-> tLossAcc[i].n],
                                 vlog |-> vlog])
            /\ tLossAcc' = <<>>
            /\ vlog' = <<>>
       ELSE UNCHANGED <<log, tLossAcc, vlog>>
    /\ pc' = "save"
    /\ UNCHANGED <<px, runs, prm, start, stop, files, ck, loaded, mode, tcalls, vcalls, fd,
                   rinp_b0, rgt_b0, rinp_b1, rgt_b1, dloss_prev, vLossAcc, vi,
                   last>>

\* Variant: the optimizer files are cleaned like the weight files.
SavedFiles_OptPermanent(f, n, save_freq) ==
    [k \in Kinds |-> ckpter_clean(f[k] \cup {n}, save_freq, 1)]

\* Variant: the files are saved and clean() is never called.
SavedFiles_NoClean(f, n, save_freq) ==
    [k \in Kinds |-> f[k] \cup {n}]

\* R.save / rsave.clean(every=save_freq,last=1); D.save / dsave.clean(...);
\* ut.saveopts / osave.clean(last=1).  clean() re-reads the directory.
SavedFiles(f, n, save_freq) ==
    [k \in Kinds |->
        ckpter_clean(f[k] \cup {n},
                     IF k = "opt" THEN CleanEveryDefault ELSE save_freq, 1)]

SaveBlock(n) ==
    /\ files' = SavedFiles(files, n, prm.save_freq)
    /\ ck' = [k \in Kinds |-> ckpter_load(files[k] \cup {n})]

\* if niter % prm.chkpt_freq == 0: save block
SaveModels ==
    /\ pc = "save"
    /\ IF niter % prm.chkpt_freq = 0
       THEN SaveBlock(niter)
       ELSE UNCHANGED <<files, ck>>
    /\ pc' = "test"
    /\ UNCHANGED <<px, runs, prm, niter, start, stop, loaded, mode, tcalls, vcalls, fd,
                   rinp_b0, rgt_b0, rinp_b1, rgt_b1, dloss_prev, tLossAcc, vlog,
                   vLossAcc, vi, last, log>>

\* After the loop: if niter > rsave.iter: save block
FinalSave ==
    /\ pc = "final"
    /\ IF niter > ck["rmodel"].iter
       THEN SaveBlock(niter)
       ELSE UNCHANGED <<files, ck>>
    /\ pc' = "done"
    /\ UNCHANGED <<px, runs, prm, niter, start, stop, loaded, mode, tcalls, vcalls, fd,
                   rinp_b0, rgt_b0, rinp_b1, rgt_b1, dloss_prev, tLossAcc, vlog,
                   vLossAcc, vi, last, log>>

\* The interrupt handler of ctrlc sets the flag, at any point of the run.
Interrupt ==
    /\ pc \notin {"done", "crashed"}
    /\ ~stop
    /\ stop' = TRUE
    /\ UNCHANGED <<px, runs, prm, pc, niter, start, files, ck, loaded, mode, tcalls, vcalls,
                   fd, rinp_b0, rgt_b0, rinp_b1, rgt_b1, dloss_prev, tLossAcc,
                   vlog, vLossAcc, vi, last, log>>

Next ==
    \/ LoadWeights
    \/ StartLoop
    \/ Prefetch
    \/ LoopTest
    \/ ValBegin
    \/ ValBatch
    \/ ValEnd
    \/ Swap
    \/ GetBatch
    \/ TrainStep
    \/ LogStep
    \/ SaveModels
    \/ FinalSave
    \/ Interrupt

Spec == Init /\ [][Next]_vars

----------------------------------------------------------------------------
(* The retention policy on arbitrary checkpoint sets: the disk holds any   *)
(* set of refine checkpoints and rsave.clean(every=save_freq,last=1) runs. *)

NumCkpts == 10
CleanIters == {100 * k : k \in 1..NumCkpts}
CleanEverys == {200, 300, 500}

CleanInit ==
    /\ prm \in {[p EXCEPT !.save_freq = e] : p \in Params, e \in CleanEverys}
    /\ prm.max_iter = MaxIter /\ prm.log_freq = 1 /\ prm.val_freq = 2
    /\ pc = "clean"
    /\ start = 0
    /\ niter = 0
    /\ stop = FALSE
    /\ files \in {[k \in Kinds |-> IF k = "rmodel" THEN S ELSE {}] :
                    S \in SUBSET CleanIters}
    /\ ck = [k \in Kinds |-> ckpter_load(files[k])]
    /\ loaded = [R |-> {}, D |-> {}, O |-> {}]
    /\ mode = [s \in Stages |-> "test"]
    /\ tcalls = 0
    /\ vcalls = 0
    /\ fd = Zero
    /\ rinp_b0 = Zero /\ rgt_b0 = Zero
    /\ rinp_b1 = Zero /\ rgt_b1 = Zero
    /\ dloss_prev = 0
    /\ tLossAcc = <<>>
    /\ vlog = <<>>
    /\ vLossAcc = <<>>
    /\ vi = 0
    /\ last = [kind |-> "none", ok |-> FALSE, dl |-> 0]
    /\ log = <<>>
    /\ runs = {}
    /\ px = NoPixel

\* rsave.clean(every=prm.save_freq,last=1)
CleanCall ==
    /\ pc = "clean"
    /\ files' = [files EXCEPT !["rmodel"] = ckpter_clean(@, prm.save_freq, 1)]
    /\ ck' = [ck EXCEPT !["rmodel"] = ckpter_load(files["rmodel"])]
    /\ pc' = "cleaned"
    /\ UNCHANGED <<px, runs, prm, niter, start, stop, loaded, mode, tcalls, vcalls, fd,
                   rinp_b0, rgt_b0, rinp_b1, rgt_b1, dloss_prev, tLossAcc, vlog,
                   vLossAcc, vi, last, log>>

CleanNext == CleanCall

CleanSpec == CleanInit /\ [][CleanNext]_vars

----------------------------------------------------------------------------
(* The end-to-end scenario: no checkpoints on disk, max_iter=5, any        *)
(* chkpt_freq up to 5, save_freq beyond the run (as by default).           *)

E2EInit ==
    /\ prm \in {[max_iter |-> 5, log_freq |-> 3, chkpt_freq |-> c, save_freq |-> 50,
                 val_freq |-> v, val_iter |-> MaxValIter,
                 disc_loss_thresh |-> Thresh] : c \in 1..5, v \in {50}}
    /\ pc = "load"
    /\ start = 0
    /\ niter = 0
    /\ stop = FALSE
    /\ files = [k \in Kinds |-> {}]
    /\ ck = [k \in Kinds |-> ckpter_load(files[k])]
    /\ loaded = [R |-> {}, D |-> {}, O |-> {}]
    /\ mode = [s \in Stages |-> IF s = "R" THEN "train" ELSE "test"]
    /\ tcalls = 0
    /\ vcalls = 0
    /\ fd = Zero
    /\ rinp_b0 = Zero /\ rgt_b0 = Zero
    /\ rinp_b1 = Zero /\ rgt_b1 = Zero
    /\ dloss_prev = 0
    /\ tLossAcc = <<>>
    /\ vlog = <<>>
    /\ vLossAcc = <<>>
    /\ vi = 0
    /\ last = [kind |-> "none", ok |-> FALSE, dl |-> 0]
    /\ log = <<>>
    /\ runs = {}
    /\ px = NoPixel

E2ESpec == E2EInit /\ [][Next]_vars

----------------------------------------------------------------------------
(* The input pipeline on one pixel: projected depth, one descriptor value  *)
(* and one colour value go through masking, dropout and rescaling, then    *)
(* through the visibility mask into the depth channel of the coarse input  *)
(* (input_attr = 'depth').  keep is a percentage, so x/keep is x*100/pct.  *)

Depths == {-1, 0, 2}
Sifts == {0, 50}
Rgbs == {0, 200}
Pcts == {20, 50, 100}
VPreds == {2, 5, 8}      \* tenths: visibility output 0.2, 0.5, 0.8

to_float(b) == IF b THEN 1 ELSE 0

\* tf.nn.dropout(x,keep): a kept element is scaled by 1/keep, a dropped one is 0
dropout(x, pct, kept) == IF kept THEN (x * 100) \div pct ELSE 0

\* tf.greater(V.pred,0.5)
vis_gt_half(v) == v > 5

TrainPixel_NoValid(p) ==
    [pd |-> (dropout(p.depth, p.pct, p.keptd) * p.pct) \div 100,
     ps |-> (dropout(p.sift, p.pct, p.kepts) * p.pct) \div 100,
     pr |-> (dropout(p.rgb, p.pct, p.keptr) * p.pct) \div 100]

\* train_refine.py, valid-point masking then dropout of one pixel
TrainPixel(p) ==
    LET is_val == to_float(p.depth > 0)
        pd == p.depth * is_val
        ps == p.sift * is_val
        pr == p.rgb * is_val
    IN  [pd |-> (dropout(pd, p.pct, p.keptd) * p.pct) \div 100,
         ps |-> (dropout(ps, p.pct, p.kepts) * p.pct) \div 100,
         pr |-> (dropout(pr, p.pct, p.keptr) * p.pct) \div 100]

\* train_refine.py: vpred and the depth channel of cinp
TrainCoarseInput(p, o) ==
    LET vpred == to_float(vis_gt_half(p.vp))
    IN  [mask |-> vpred, cinp |-> o.pd * vpred]

\* demo_colmap.py: dropout without valid-point masking
DemoPixel(p) ==
    [pd |-> (dropout(p.depth, p.pct, p.keptd) * p.pct) \div 100,
     ps |-> (dropout(p.sift, p.pct, p.kepts) * p.pct) \div 100,
     pr |-> (dropout(p.rgb, p.pct, p.keptr) * p.pct) \div 100]

\* demo_colmap.py: valid, vpred, vpredf and the depth channel of cinp
DemoCoarseInput(p, o) ==
    LET valid == o.pd > 0
        vpred == vis_gt_half(p.vp) /\ valid
        vpredf == to_float(vpred) * 0 + 1
    IN  [valid |-> valid, vpred |-> vpred, mask |-> vpredf, cinp |-> o.pd * vpredf]

PixelInputs ==
    [stage : {"in"}, depth : Depths, sift : Sifts, rgb : Rgbs, pct : Pcts,
     keptd : BOOLEAN, kepts : BOOLEAN, keptr : BOOLEAN, vp : VPreds]

PixelInit ==
    /\ px \in PixelInputs
    /\ prm \in Params
    /\ prm.max_iter = MaxIter /\ prm.log_freq = 1 /\ prm.val_freq = 2
    /\ pc = "load"
    /\ start = 0
    /\ niter = 0
    /\ stop = FALSE
    /\ files = [k \in Kinds |-> {}]
    /\ ck = [k \in Kinds |-> ckpter_load(files[k])]
    /\ loaded = [R |-> {}, D |-> {}, O |-> {}]
    /\ mode = [s \in Stages |-> "test"]
    /\ tcalls = 0
    /\ vcalls = 0
    /\ fd = Zero
    /\ rinp_b0 = Zero /\ rgt_b0 = Zero
    /\ rinp_b1 = Zero /\ rgt_b1 = Zero
    /\ dloss_prev = 0
    /\ tLossAcc = <<>>
    /\ vlog = <<>>
    /\ vLossAcc = <<>>
    /\ vi = 0
    /\ last = [kind |-> "none", ok |-> FALSE, dl |-> 0]
    /\ log = <<>>
    /\ runs = {}

\* train_refine.py graph on the pixel
TrainPipeline ==
    /\ px.stage = "in"
    /\ LET o == TrainPixel(px)
           c == TrainCoarseInput(px, o)
       IN  px' = [stage |-> "train", in |-> px, pd |-> o.pd, ps |-> o.ps,
                  pr |-> o.pr, mask |-> c.mask, cinp |-> c.cinp]
    /\ UNCHANGED <<runs, prm, pc, niter, start, stop, files, ck, loaded, mode, tcalls,
                   vcalls, fd, rinp_b0, rgt_b0, rinp_b1, rgt_b1, dloss_prev,
                   tLossAcc, vlog, vLossAcc, vi, last, log>>

\* demo_colmap.py graph on the pixel
DemoPipeline ==
    /\ px.stage = "in"
    /\ LET o == DemoPixel(px)
           c == DemoCoarseInput(px, o)
       IN  px' = [stage |-> "demo", in |-> px, pd |-> o.pd, ps |-> o.ps,
                  pr |-> o.pr, mask |-> c.mask, cinp |-> c.cinp]
    /\ UNCHANGED <<runs, prm, pc, niter, start, stop, files, ck, loaded, mode, tcalls,
                   vcalls, fd, rinp_b0, rgt_b0, rinp_b1, rgt_b1, dloss_prev,
                   tLossAcc, vlog, vLossAcc, vi, last, log>>

PixelNext == TrainPipeline \/ DemoPipeline

PixelSpec == PixelInit /\ [][PixelNext]_vars

----------------------------------------------------------------------------
(* Properties *)

InLoopBody == pc \in {"swap", "getbatch", "step", "log"}

\* C1: the step selected in an iteration is the discriminator step exactly
\* when the iteration counter is even and the remembered discriminator loss
\* is strictly above the threshold; otherwise it is the generator step.
C1_Alternation ==
    [][pc = "step" /\ pc' = "log" =>
          /\ last'.kind \in {"D", "R"}
          /\ last'.kind = "D" <=>
                (niter % 2 = 0 /\ dloss_prev > prm.disc_loss_thresh)]_vars

\* An even iteration that took the generator step (the threshold gate).
C1_Witness ==
    pc = "log" /\ niter % 2 = 0 /\ last.kind = "R" /\ niter > start

\* C2: whenever an optimization step runs in iteration i, the current slot
\* holds the batch fetched for it during iteration i-1 (or before the loop).
C2_TrainsOnPrefetched ==
    pc = "step" => rinp_b1 = Trn(niter) /\ rgt_b1 = Trn(niter)

\* C3: the swap leaves in the current slot exactly what the next slot held
\* just before it, input and ground truth together.
C3_SwapMovesNext ==
    [][pc = "swap" /\ pc' = "getbatch" =>
          /\ rinp_b1' = rinp_b0 /\ rgt_b1' = rgt_b0
          /\ rinp_b0' = rinp_b0 /\ rgt_b0' = rgt_b0]_vars

\* After a swap that replaced different contents (a validation batch or the
\* previous training batch) by the prefetched training batch.
C3_Witness ==
    /\ pc = "getbatch" /\ niter > start
    /\ rinp_b1 = Trn(niter) /\ rgt_b1 = Trn(niter)
    /\ rinp_b0 = rinp_b1 /\ rgt_b0 = rgt_b1

\* C4: a failed step appends nothing and keeps dloss_prev; a successful one
\* appends its triple and makes its discriminator loss the remembered one;
\* either way the counter then advances by exactly one and the loop goes on.
C4_FailedStepSkipped ==
    /\ [][pc = "step" /\ pc' = "log" =>
            IF last'.ok
            THEN /\ dloss_prev' = last'.dl
                 /\ tLossAcc' = Append(tLossAcc, [n |-> niter, dl |-> last'.dl])
            ELSE dloss_prev' = dloss_prev /\ tLossAcc' = tLossAcc]_vars
    /\ [][pc = "log" /\ pc' # "log" => niter' = niter + 1 /\ pc' = "save"]_vars
    /\ [][niter' # niter => pc = "log"]_vars

\* A failed step following a successful one whose loss is still remembered.
C4_Witness ==
    pc = "log" /\ ~last.ok /\ dloss_prev = Thresh /\ tLossAcc # <<>>

\* C5: a validation pass finishes and the loop goes on with the same
\* iteration, however many of its batches failed.
C5_ValPassTolerated ==
    [][pc = "valbatch" /\ pc' # "valbatch" => pc' = "swap" /\ niter' = niter]_vars

\* C6: clean(every=E,last=1) leaves exactly the highest checkpoint and the
\* multiples of E; on {100,...,1000} with E=500 it leaves {500,1000}.
C6_CleanPolicy ==
    pc = "cleaned" =>
        LET S == ck["rmodel"].lst
            E == prm.save_freq
        IN  /\ files["rmodel"] = {j \in S : j = Max(S) \/ j % E = 0}
            /\ S # {} => Max(S) \in files["rmodel"]
            /\ (S = {100 * k : k \in 1..10} /\ E = 500)
                  => files["rmodel"] = {500, 1000}

\* The example: ten checkpoints cleaned with E=500.
C6_Witness ==
    /\ pc = "cleaned" /\ prm.save_freq = 500
    /\ ck["rmodel"].lst = {100 * k : k \in 1..10}
    /\ files["rmodel"] = {500, 1000}

\* C7: once interrupted, the run ends with the latest checkpoint of every
\* kind at the final iteration count whenever an iteration ran.
C7_GracefulCancel ==
    (stop /\ pc \in {"done", "crashed"} /\ niter > start) =>
        \A k \in Kinds : files[k] # {} /\ Max(files[k]) = niter

\* C8 as stated: a validation fetch modifies neither training slot.
C8_ValSeparateSlots ==
    [][pc = "valbatch" /\ vi' # vi =>
          /\ rinp_b1' = rinp_b1 /\ rgt_b1' = rgt_b1
          /\ rinp_b0' = rinp_b0 /\ rgt_b0' = rgt_b0]_vars

\* C8 amended: a validation fetch never modifies the next slot (whose only
\* writer is the training fetch); it writes the current slot, which the
\* swap overwrites, so every training step reads a training batch.
C8_ValLeavesNext ==
    /\ [][pc = "valbatch" /\ vi' # vi =>
            rinp_b0' = rinp_b0 /\ rgt_b0' = rgt_b0]_vars
    /\ [][(rinp_b0' # rinp_b0 \/ rgt_b0' # rgt_b0) =>
            pc \in {"prefetch", "step"}]_vars
    /\ [](pc = "step" => rinp_b1.src = "trn" /\ rgt_b1.src = "trn")

\* In a validation pass: the current slot holds a validation batch while the
\* next slot still holds the training batch prefetched for this iteration.
C8_Witness ==
    /\ pc = "valbatch" /\ vi > 0
    /\ rinp_b1.src = "val" /\ rgt_b1.src = "val"
    /\ rinp_b0 = Trn(niter) /\ rgt_b0 = Trn(niter)

\* C9: after loading, V and C stay in frozen-statistics mode; R and D are in
\* train mode at every training step and in evaluation mode at every
\* validation evaluation; a pass always ends with R and D back in train mode.
C9_NormModes ==
    /\ pc # "load" => mode["V"] = "test" /\ mode["C"] = "test"
    /\ pc = "valbatch" => mode["R"] = "test" /\ mode["D"] = "test"
    /\ InLoopBody => mode["R"] = "train" /\ mode["D"] = "train"

\* A training step right after a validation pass in which a batch failed.
C9_Witness ==
    /\ pc = "step" /\ niter % prm.val_freq = 0
    /\ vi = prm.val_iter /\ Len(vLossAcc) < vi
    /\ mode["R"] = "train" /\ mode["D"] = "train"

\* Validation passes completed so far, named by their iteration.
PassDone(k) ==
    /\ k >= start /\ k % prm.val_freq = 0
    /\ k < niter \/ (k = niter /\ InLoopBody)

\* Passes completed between the previous log line and line j.
PassWindow(j) ==
    LET lo == IF j = 1 THEN start ELSE log[j - 1].niter
    IN  {k \in lo..(log[j].niter - 1) : k % prm.val_freq = 0}

\* C10 as stated: the figures of every completed pass are in the first log
\* line printed after it.
C10_EveryPassLogged ==
    \A k \in 0..MaxIter : \A j \in 1..Len(log) :
        (PassDone(k) /\ k \in PassWindow(j)) =>
            (log[j].vlog # <<>> /\ log[j].vlog[1].at = k)

\* C10 amended: a log line carries the figures of the latest pass completed
\* since the previous line, and none when there was no such pass; so a
\* pass's figures are in at most one line, the first printed after it, and
\* in none when another pass completed before that line.
C10_LatestPassLogged ==
    \A j \in 1..Len(log) :
        IF PassWindow(j) = {}
        THEN log[j].vlog = <<>>
        ELSE log[j].vlog # <<>> /\ log[j].vlog[1].at = Max(PassWindow(j))

\* Two lines: the first carries a pass's figures, the second carries none.
C10_Witness ==
    Len(log) = 2 /\ log[1].vlog # <<>> /\ log[2].vlog = <<>>

\* C11: a run resumed at iteration K trains iteration K on element K of the
\* batch sequence, and so does the run that started at iteration 0 and
\* reached K: both train iteration K on the same batch.
C11_ResumeSameBatch ==
    (pc = "step" /\ (niter = start \/ start = 0)) =>
        rinp_b1 = Trn(niter) /\ rgt_b1 = Trn(niter)

\* C12: from no checkpoints with max_iter=5 and chkpt_freq <= 5 an
\* uninterrupted run (its pre-loop fetch done) completes exactly 5
\* iterations without error, reaches the final save with niter above the
\* last checkpoint iteration, and leaves one checkpoint set.
C12_EndToEnd ==
    /\ (pc = "final" /\ ~stop) => (niter = 5 /\ niter > ck["rmodel"].iter)
    /\ (pc \in {"done", "crashed"} /\ ~stop /\ rinp_b0 # Zero /\ rgt_b0 # Zero) =>
          (pc = "done" /\ niter = 5 /\ \A k \in Kinds : files[k] = {5})

\* C13: in the training input pipeline, a pixel whose projected depth is
\* <= 0 has depth, descriptor and colour exactly zero after dropout and
\* rescaling, for every dropout outcome and every visibility prediction.
C13_MaskedPixelZero ==
    (px.stage = "train" /\ px.in.depth <= 0) =>
        (px.pd = 0 /\ px.ps = 0 /\ px.pr = 0)

C13_Witness ==
    /\ px.stage = "train" /\ px.in.depth < 0
    /\ px.in.sift > 0 /\ px.in.rgb > 0
    /\ px.in.keptd /\ px.in.kepts /\ px.in.keptr
    /\ px.in.pct = 20 /\ px.in.vp = 8
    /\ px.pd = 0 /\ px.ps = 0 /\ px.pr = 0

\* C14: in cascade inference the mask multiplied into the coarse input is 1
\* exactly where the visibility prediction exceeds 0.5 and the depth is > 0,
\* and 0 elsewhere, so a pixel predicted not visible contributes nothing.
C14_MaskIsVisibleAndValid ==
    px.stage = "demo" =>
        /\ px.mask = (IF vis_gt_half(px.in.vp) /\ px.pd > 0 THEN 1 ELSE 0)
        /\ (~vis_gt_half(px.in.vp) => px.cinp = 0)

\* C15 as stated: after any sequence of saves each kind has at most two
\* files on disk (the latest permanent and the latest transient save).
C15_AtMostTwoFiles ==
    \A k \in Kinds : Cardinality(files[k]) <= 2

\* C15 amended: each weight kind keeps every save at a multiple of
\* save_freq plus the single latest save; the optimizer kind keeps only the
\* latest save.
C15_Retention ==
    /\ \A k \in {"rmodel", "dmodel"} : \A j \in files[k] :
          j = Max(files[k]) \/ j % prm.save_freq = 0
    /\ Cardinality(files["opt"]) <= 1

C15_Witness ==
    /\ Cardinality(files["rmodel"]) = 3
    /\ Max(files["rmodel"]) % prm.save_freq # 0
    /\ Cardinality(files["opt"]) = 1

\* C16: every positive multiple m of save_freq the iteration counter has
\* reached in the run has a refine and a discriminator checkpoint on disk,
\* for any chkpt_freq.
C16_PermanentEverySaveFreq ==
    pc \in {"test", "final", "done"} =>
        \A m \in (start + 1)..niter :
            m % prm.save_freq = 0 =>
                (m \in files["rmodel"] /\ m \in files["dmodel"])

C18_GeneratorEveryOther ==
    [][(pc = "step" /\ pc' = "log") =>
          /\ (niter % 2 = 1 => last'.kind = "R")
          /\ ~(last.kind = "D" /\ last'.kind = "D")]_vars

C18_Witness ==
    /\ pc = "log" /\ niter % 2 = 1
    /\ last.kind = "R" /\ ~last.ok
    /\ dloss_prev = Thresh + 1

\* C19: the training fetch, alone before the loop or inside the combined
\* run of a step, succeeding or failing, leaves the current slot unchanged.
C19_FetchLeavesCurrent ==
    [][((pc = "prefetch" \/ pc = "step") /\ pc' # pc) =>
          (rinp_b1' = rinp_b1 /\ rgt_b1' = rgt_b1)]_vars

C19_Witness ==
    /\ pc = "log" /\ ~last.ok
    /\ rinp_b0 = fd /\ rgt_b0 # fd
    /\ rinp_b1 = rgt_b1 /\ rinp_b1 # Zero /\ rinp_b1 # fd

\* C20: in every unit of work handed to the executor the slots written are
\* disjoint from the slots its loss/optimization computation reads.
C20_NoReadWhileWritten ==
    \A u \in runs : u.w \cap u.r = {}

C20_Witness ==
    /\ pc = "log" /\ last.ok
    /\ runs = {StepAndFetch}
    /\ StepAndFetch.w # {} /\ StepAndFetch.r # {}

\* C21: without an interrupt a run started at s < max_iter executes exactly
\* max_iter - s iterations and exits, whatever batches fail; started at
\* s >= max_iter it executes no iteration and writes no checkpoint.
C21_ExactIterationCount ==
    (pc \in {"final", "done", "crashed"} /\ ~stop /\ rinp_b0 # Zero /\ rgt_b0 # Zero) =>
        /\ pc # "crashed"
        /\ niter = (IF start < prm.max_iter THEN prm.max_iter ELSE start)
        /\ (start >= prm.max_iter =>
               files = [k \in Kinds |-> IF start = 0 THEN {} ELSE {start}])

\* C22: a validation pass never changes the next slot; the step after it
\* trains on exactly the contents of the next slot, never on a validation
\* batch; no step and no validation loss evaluation reads a never-fetched
\* (zero) buffer.
C22_ValidationInvisible ==
    /\ [][(pc = "valbegin" \/ pc = "valbatch") =>
              (rinp_b0' = rinp_b0 /\ rgt_b0' = rgt_b0)]_vars
    /\ [](pc \in {"getbatch", "step"} =>
            /\ rinp_b1 = rinp_b0 /\ rgt_b1 = rgt_b0
            /\ rinp_b1.src \notin {"val", "zero"}
            /\ rgt_b1.src \notin {"val", "zero"})
    /\ []((pc = "valbatch" /\ LossEval \in runs) =>
            (rinp_b1 = fd /\ rgt_b1 = fd /\ fd.src = "val"))

\* A training step of an iteration that began with a validation pass in
\* which one batch failed and one was evaluated.
C22_Witness ==
    /\ pc = "step" /\ niter > start
    /\ vlog # <<>> /\ vlog[1].at = niter /\ vlog[1].cnt < prm.val_iter
    /\ rinp_b1 = Trn(niter) /\ rgt_b1 = Trn(niter)
    /\ rinp_b0 = rinp_b1 /\ rgt_b0 = rgt_b1

\* C23: once a periodic or final save block has completed, all three kinds
\* have a checkpoint for the current iteration count, it is the latest of
\* its kind, and exactly one optimizer file is on disk.
C23_KindsAligned ==
    ((pc = "test" /\ niter > start /\ niter % prm.chkpt_freq = 0)
        \/ (pc = "done" /\ niter > start)) =>
        /\ \A k \in Kinds : niter \in files[k] /\ Max(files[k]) = niter
                              /\ ck[k].iter = niter
        /\ files["opt"] = {niter}

\* After a final save at an iteration that is no multiple of chkpt_freq,
\* with an older permanent weight checkpoint still on disk.
C23_Witness ==
    /\ pc = "done" /\ niter > start /\ niter % prm.chkpt_freq # 0
    /\ Cardinality(files["rmodel"]) = 2 /\ files["dmodel"] = files["rmodel"]
    /\ files["opt"] = {niter}

\* C24: on startup with checkpoints present the refine weights, the
\* discriminator weights and the optimizer state are each loaded from their
\* latest checkpoint before the first step, and the counter starts there.
C24_AllRestored ==
    (pc \notin {"load", "crashed"} /\ start > 0) =>
        /\ loaded.R = {start} /\ loaded.D = {start} /\ loaded.O = {start}
        /\ niter >= start

====
